---- MODULE Spec2Model ----
(***************************************************************************)
(* mixlab project layer (src/src/project.rs): opening a project, the       *)
(* background task that persists workspace states with a                   *)
(* write-to-temporary-then-rename sequence, and the media upload           *)
(* lifecycle (begin_media_upload, receive_bytes, finalize) over the        *)
(* metadata maps guarded by the project lock; and the two modules of       *)
(* src/src/module (gate.rs, vst.rs) under the create / update / run_tick   *)
(* contract.                                                               *)
(*                                                                         *)
(* Tasks are interleaved at their await points.  A critical section that   *)
(* contains no await (receive_bytes after the file write, finalize) is one *)
(* step; a section that awaits file-system calls while holding the lock    *)
(* (write_workspace, begin_media_upload) is several steps with the lock    *)
(* held in between.                                                        *)
(***************************************************************************)
EXTENDS Integers, Sequences, FiniteSets, TLC

\* ------------------------------------------------------------------ bounds
\* number of identifiers begin_media_upload may hand out
MaxUploads == 2
\* bytes written to media files, all uploads together
MaxBytes == 2
\* workspace states the engine sends on the persistence channel
MaxSends == 2
\* samples in the block the engine hands to run_tick for one terminal
BlockLen == 2
\* run_tick calls on a module
MaxTicks == 2
\* inputs or outputs a plugin reports
MaxArity == 2
\* times the plugin is loaded (create, then updates)
MaxLoads == 2

\* ------------------------------------------------------------------ values
Ids == 1..MaxUploads

DefaultWorkspace == "empty"
Workspaces == {"empty", "wsA", "wsB"}
\* states the engine may send after an edit
EditedWorkspaces == {"wsA", "wsB"}

\* UploadInfo {name, kind, size} values a caller may pass
Infos == {[name |-> "a.wav", kind |-> "audio", size |-> 1],
          [name |-> "b.mp4", kind |-> "video", size |-> 2]}

\* byte counts of one receive_bytes call (bytes.len())
ChunkLens == 1..MaxBytes

workspace_tmp_path_Direct == "workspace.json"
workspace_tmp_path == ".workspace.json.tmp"
workspace_path == "workspace.json"
Paths == {workspace_tmp_path, workspace_path}

NoFile == [exists |-> FALSE, data |-> <<>>]
FileOf(d) == [exists |-> TRUE, data |-> d]

\* serde_json::to_vec: the document as a sequence of tokens
Serialize(w) == <<"{", w, "}">>

\* serde_json::from_slice: the workspace of a well-formed document, or an error
Parse(d) ==
  IF Len(d) = 3 /\ d[1] = "{" /\ d[3] = "}" /\ d[2] \in Workspaces
  THEN d[2] ELSE "ParseError"

\* the contents a failed or interrupted write of d can leave behind
StrictPrefixes(d) == {SubSeq(d, 1, k) : k \in 0..(Len(d) - 1)}

VARIABLES
  phase,        \* "closed" | "open" | "failed" | "crashed"
  dir,          \* the project path on disk: "absent" | "dir" | "file"
  fs,           \* content of the two workspace paths
  readOutcome,  \* arm of the match in read_workspace taken by open_or_create
  openResult,   \* what open_or_create returned
  engineWs,     \* workspace the engine was started with ("none": not started)
  channel,      \* persist_rx: states sent and not yet received
  pcP,          \* position of the persistence task
  cur,          \* state the persistence task is writing ("none")
  lock,         \* holder of the project lock: "free" | "persist" | "begin"
  library,      \* ProjectBase.library
  uploads,      \* ProjectBase.uploads
  mediaDir,     \* the media directory exists
  fileLen,      \* bytes in each identifier's media file
  nextId,       \* identifiers handed out so far, plus one
  beginInfo,    \* info of the begin_media_upload holding the lock ("none")
  handle,       \* the caller's hold on each identifier: "none" (not handed
                \* out) | "live" (calls may come) | "dropped" (released)
  pend,         \* byte count of a receive_bytes between file write and lock (0: none)
  ret,          \* the last return of receive_bytes or finalize: [op, id, res]
  sendLimit,    \* states the engine sends in this run
  uploadLimit,  \* identifiers handed out in this run
  \* history, not read by any action:
  sent,         \* every state the engine sent, in order
  log,          \* every finished write_workspace: [ws, res]
  begun,        \* the info each identifier was begun with
  acked,        \* total length of the receive_bytes calls that returned Ok
  finOk,        \* number of finalize calls on each identifier that returned Ok
  torn,         \* bytes each file got from write_all calls that failed
  lost          \* bytes each file got from calls dropped before the lock

VARIABLES
  gateParams,   \* Gate.params: "none" (no instance) | "Open" | "Closed"
  gateAsked,    \* the parameters most recently supplied to create or update
  gateOut,      \* the output blocks of the Gate after its last run_tick
  gateTicks,    \* run_tick calls on the Gate
  vstState,     \* "none" (no instance) | "ready" | "panicked"
  vst,          \* the Vst instance: [plugin, inputs, outputs]
  vstCalls,     \* every call made on a loaded plugin, in order
  vstInfo,      \* the info the plugin of the instance reported
  vstLoads,     \* plugins loaded so far
  vstOut,       \* the output blocks of the Vst after its last run_tick
  vstTicks      \* run_tick calls on the Vst instance

moduleVars == <<gateParams, gateAsked, gateOut, gateTicks, vstState, vst, vstCalls,
                vstInfo, vstLoads, vstOut, vstTicks>>

projectVars == <<phase, dir, fs, readOutcome, openResult, engineWs, channel,
          pcP, cur, lock, library, uploads, mediaDir, fileLen, nextId,
          beginInfo, handle, pend, ret, sendLimit, uploadLimit, sent, log,
          begun, acked, finOk, torn, lost>>

vars == <<projectVars, moduleVars>>

diskVars == <<dir, fs>>
openVars == <<readOutcome, openResult, engineWs>>
persistVars == <<channel, pcP, cur, log>>
mapVars == <<library, uploads>>
uploadVars == <<mediaDir, fileLen, nextId, beginInfo, handle, pend, ret,
                begun, acked, finOk, torn, lost>>
limitVars == <<sendLimit, uploadLimit>>
lossVars == <<torn, lost>>

NoInfo == [name |-> "", kind |-> "", size |-> 0]
NoRet == [op |-> "none", id |-> 0, res |-> "none"]

RECURSIVE SumTo(_, _)
SumTo(f, k) == IF k = 0 THEN 0 ELSE f[k] + SumTo(f, k - 1)
\* bytes in all media files
TotalBytes == SumTo(fileLen, MaxUploads)

\* HashMap::new, insert and remove
EmptyMap == [i \in {} |-> NoInfo]
MapInsert(m, k, v) == [i \in DOMAIN m \cup {k} |-> IF i = k THEN v ELSE m[i]]
MapRemove(m, k) == [i \in DOMAIN m \ {k} |-> m[i]]

\* ---------------------------------------------------------------- modules
NoInstance == [plugin |-> 0, inputs |-> <<>>, outputs |-> <<>>]
NoPluginInfo == [inputs |-> 0, outputs |-> 0]

\* no module has been created
NoModules ==
  /\ gateParams = "none"
  /\ gateAsked = "none"
  /\ gateOut = <<>>
  /\ gateTicks = 0
  /\ vstState = "none"
  /\ vst = NoInstance
  /\ vstCalls = <<>>
  /\ vstInfo = NoPluginInfo
  /\ vstLoads = 0
  /\ vstOut = <<>>
  /\ vstTicks = 0

\* ------------------------------------------------------------------- Init
\* The disk before the program runs: the project path is absent, a
\* directory or a plain file; a directory holds no workspace file, a
\* committed one, or one that does not parse.
Init ==
  /\ phase = "closed"
  /\ dir \in {"absent", "dir", "file"}
  /\ \E c \in {NoFile, FileOf(Serialize("wsA")), FileOf(<<"{", "wsA">>)} :
       /\ (dir # "dir" => c = NoFile)
       /\ fs = [p \in Paths |-> IF p = workspace_path THEN c ELSE NoFile]
  /\ readOutcome = "none"
  /\ openResult = "none"
  /\ engineWs = "none"
  /\ channel = <<>>
  /\ pcP = "none"
  /\ cur = "none"
  /\ lock = "free"
  /\ library = EmptyMap
  /\ uploads = EmptyMap
  /\ mediaDir = FALSE
  /\ fileLen = [i \in Ids |-> 0]
  /\ nextId = 1
  /\ beginInfo = NoInfo
  /\ handle = [i \in Ids |-> "none"]
  /\ pend = [i \in Ids |-> 0]
  /\ ret = NoRet
  \* a run is bounded in one of two ways: every state sent beside a single
  \* upload, from any disk; or every upload with no state sent, from an
  \* existing project directory without a workspace file
  /\ \/ /\ sendLimit = MaxSends
        /\ uploadLimit = 1
     \/ /\ sendLimit = 0
        /\ uploadLimit = MaxUploads
        /\ dir = "dir"
        /\ ~fs[workspace_path].exists
  /\ sent = <<>>
  /\ log = <<>>
  /\ begun = [i \in Ids |-> NoInfo]
  /\ acked = [i \in Ids |-> 0]
  /\ finOk = [i \in Ids |-> 0]
  /\ torn = [i \in Ids |-> 0]
  /\ lost = [i \in Ids |-> 0]
  /\ NoModules

\* ------------------------------------------------------- open_or_create
\* fs::create_dir(&path) and, on AlreadyExists, fs::metadata(&path):
\* "Ok" to go on, or the OpenError returned.  Either call can fail with
\* another I/O error whatever the disk holds.
create_dir_outcomes(d) ==
  CASE d = "absent" -> {"Ok", "Io"}
    [] d = "dir"    -> {"Ok", "Io"}
    [] d = "file"   -> {"NotDirectory", "Io"}

\* fs::read(&workspace_path) followed by serde_json::from_slice: the arms of
\* the match in read_workspace that a file can lead to.
read_outcomes(f) ==
  IF f.exists
  THEN {IF Parse(f.data) # "ParseError" THEN "Ok" ELSE "ParseErr", "IoErr"}
  ELSE {"NotFound", "IoErr"}

read_workspace_NotFoundIsError(f, arm) ==
  CASE arm = "Ok" -> [ok |-> TRUE, ws |-> Parse(f.data)]
    [] OTHER      -> [ok |-> FALSE, ws |-> "none"]

\* read_workspace: the parsed workspace, the default one when the file is
\* not found, an error for any other arm.
read_workspace(f, arm) ==
  CASE arm = "Ok"       -> [ok |-> TRUE, ws |-> Parse(f.data)]
    [] arm = "NotFound" -> [ok |-> TRUE, ws |-> DefaultWorkspace]
    [] OTHER            -> [ok |-> FALSE, ws |-> "none"]

\* open_or_create returns an error before ProjectBase::open_at
OpenDirFails ==
  /\ phase = "closed"
  /\ \E r \in create_dir_outcomes(dir) \ {"Ok"} :
       /\ openResult' = r
       /\ phase' = "failed"
  /\ UNCHANGED <<diskVars, readOutcome, engineWs, persistVars, lock,
                 mapVars, uploadVars, sent, limitVars, moduleVars>>

\* open_or_create from read_workspace on: the error of read_workspace
\* returned by `?`, or the engine started on the workspace read and the
\* persistence task spawned.
OpenReads ==
  /\ phase = "closed"
  /\ "Ok" \in create_dir_outcomes(dir)
  /\ \E arm \in read_outcomes(fs[workspace_path]) :
       LET r == read_workspace(fs[workspace_path], arm) IN
       /\ readOutcome' = arm
       /\ IF r.ok
          THEN /\ openResult' = "Ok"
               /\ phase' = "open"
               /\ engineWs' = r.ws
               /\ pcP' = "recv"
          ELSE /\ openResult' = "Io"
               /\ phase' = "failed"
               /\ UNCHANGED <<engineWs, pcP>>
  /\ dir' = "dir"
  /\ UNCHANGED <<fs, channel, cur, log, lock, mapVars, uploadVars, sent, limitVars, moduleVars>>

\* ------------------------------------------------- engine (channel sender)
\* The engine forwards the workspace state of an edit to the channel.  It
\* holds the sending end for as long as the project is open, so recv never
\* returns None and the loop of the persistence task has no exit.
EngineSend(w) ==
  /\ phase = "open"
  /\ Len(sent) < sendLimit
  /\ channel' = Append(channel, w)
  /\ sent' = Append(sent, w)
  /\ UNCHANGED <<phase, diskVars, openVars, pcP, cur, log, lock,
                 mapVars, uploadVars, limitVars, moduleVars>>

\* ------------------------------------------------------ persistence task
channel_recv_Last(ch) ==
  [item |-> ch[Len(ch)], rest |-> SubSeq(ch, 1, Len(ch) - 1)]

\* persist_rx.recv(): the oldest state in the channel
channel_recv(ch) == [item |-> Head(ch), rest |-> Tail(ch)]

after_write_error_Stops == "done"

\* where the task goes after the Err arm of its match: round the loop again
after_write_error == "recv"

\* while let Some(workspace) = persist_rx.recv().await
PersistRecv ==
  /\ phase = "open"
  /\ pcP = "recv"
  /\ channel # <<>>
  /\ cur' = channel_recv(channel).item
  /\ channel' = channel_recv(channel).rest
  /\ pcP' = "lock"
  /\ UNCHANGED <<phase, diskVars, openVars, log, lock, mapVars,
                 uploadVars, sent, limitVars, moduleVars>>

PersistLock_NoWait ==
  /\ phase = "open"
  /\ pcP = "lock"
  /\ lock' = "persist"
  /\ pcP' = "write"
  /\ UNCHANGED <<phase, diskVars, openVars, channel, cur, log,
                 mapVars, uploadVars, sent, limitVars, moduleVars>>

\* base.lock().await
PersistLock ==
  /\ phase = "open"
  /\ pcP = "lock"
  /\ lock = "free"
  /\ lock' = "persist"
  /\ pcP' = "write"
  /\ UNCHANGED <<phase, diskVars, openVars, channel, cur, log,
                 mapVars, uploadVars, sent, limitVars, moduleVars>>

\* fs::write(&workspace_tmp_path, ..) under way: the temporary file is
\* truncated and holds part of the document
WriteTmpPartial ==
  /\ phase = "open"
  /\ pcP = "write"
  /\ \E d \in StrictPrefixes(Serialize(cur)) :
       fs' = [fs EXCEPT ![workspace_tmp_path] = FileOf(d)]
  /\ pcP' = "writing"
  /\ UNCHANGED <<phase, dir, openVars, channel, cur, log, lock,
                 mapVars, uploadVars, sent, limitVars, moduleVars>>

\* fs::write(&workspace_tmp_path, ..) returns Ok: the whole document is there
WriteTmpOk ==
  /\ phase = "open"
  /\ pcP = "writing"
  /\ fs' = [fs EXCEPT ![workspace_tmp_path] = FileOf(Serialize(cur))]
  /\ pcP' = "written"
  /\ UNCHANGED <<phase, dir, openVars, channel, cur, log, lock,
                 mapVars, uploadVars, sent, limitVars, moduleVars>>

\* write_workspace returns the error of fs::write (before or after part of
\* the document was written) or of fs::rename; the task prints it, the lock
\* guard is dropped and the loop goes on.
WriteFails ==
  /\ phase = "open"
  /\ pcP \in {"write", "writing", "written"}
  /\ log' = Append(log, [ws |-> cur, res |-> "err"])
  /\ cur' = "none"
  /\ lock' = "free"
  /\ pcP' = after_write_error
  /\ UNCHANGED <<phase, diskVars, openVars, channel, mapVars,
                 uploadVars, sent, limitVars, moduleVars>>

\* fs::rename(&workspace_tmp_path, &workspace_path) returns Ok, and so does
\* write_workspace; the lock guard is dropped.
RenameOk ==
  /\ phase = "open"
  /\ pcP = "written"
  /\ fs' = [p \in Paths |-> IF p = workspace_path THEN fs[workspace_tmp_path]
                             ELSE NoFile]
  /\ log' = Append(log, [ws |-> cur, res |-> "ok"])
  /\ cur' = "none"
  /\ lock' = "free"
  /\ pcP' = "recv"
  /\ UNCHANGED <<phase, dir, openVars, channel, mapVars, uploadVars,
                 sent, limitVars, moduleVars>>

\* The process is killed (or the machine stops): nothing runs any more, what
\* was in memory is gone and the disk stays as it is.
Crash ==
  /\ phase = "open"
  /\ phase' = "crashed"
  /\ channel' = <<>>
  /\ pcP' = "none"
  /\ cur' = "none"
  /\ lock' = "free"
  /\ library' = EmptyMap
  /\ uploads' = EmptyMap
  /\ nextId' = 1
  /\ beginInfo' = NoInfo
  /\ handle' = [i \in Ids |-> "none"]
  /\ pend' = [i \in Ids |-> 0]
  /\ ret' = NoRet
  /\ sent' = <<>>
  /\ log' = <<>>
  /\ begun' = [i \in Ids |-> NoInfo]
  /\ acked' = [i \in Ids |-> 0]
  /\ finOk' = [i \in Ids |-> 0]
  /\ torn' = [i \in Ids |-> 0]
  /\ lost' = [i \in Ids |-> 0]
  /\ UNCHANGED <<diskVars, openVars, mediaDir, fileLen, limitVars, moduleVars>>

\* ------------------------------------------------------ begin_media_upload
new_upload_Sized(info) == [info |-> info, uploaded_bytes |-> info.size]

\* InProgressUpload { info, uploaded_bytes: 0 }
new_upload(info) == [info |-> info, uploaded_bytes |-> 0]

\* ProjectHandle::begin_media_upload: self.base.lock().await
BeginLock(info) ==
  /\ phase = "open"
  /\ lock = "free"
  /\ nextId <= uploadLimit
  /\ lock' = "begin"
  /\ beginInfo' = info
  /\ UNCHANGED <<phase, diskVars, openVars, persistVars, mapVars,
                 mediaDir, fileLen, nextId, handle, pend, ret, begun, acked,
                 finOk, sent, limitVars, lossVars,
                 moduleVars>>

\* fs::create_dir(&media_path) fails with an error other than AlreadyExists
BeginDirFails ==
  /\ phase = "open"
  /\ lock = "begin"
  /\ lock' = "free"
  /\ beginInfo' = NoInfo
  /\ UNCHANGED <<phase, diskVars, openVars, persistVars, mapVars,
                 mediaDir, fileLen, nextId, handle, pend, ret, begun, acked,
                 finOk, sent, limitVars, lossVars,
                 moduleVars>>

\* the media directory is created or exists already; File::create fails
BeginFileFails ==
  /\ phase = "open"
  /\ lock = "begin"
  /\ mediaDir' = TRUE
  /\ lock' = "free"
  /\ beginInfo' = NoInfo
  /\ UNCHANGED <<phase, diskVars, openVars, persistVars, mapVars,
                 fileLen, nextId, handle, pend, ret, begun, acked, finOk,
                 sent, limitVars, lossVars,
                 moduleVars>>

\* the media directory is created or exists already, the file of a new
\* identifier is created, the upload is registered and the handle returned
BeginOk ==
  /\ phase = "open"
  /\ lock = "begin"
  /\ mediaDir' = TRUE
  /\ fileLen' = [fileLen EXCEPT ![nextId] = 0]
  /\ uploads' = MapInsert(uploads, nextId, new_upload(beginInfo))
  /\ handle' = [handle EXCEPT ![nextId] = "live"]
  /\ begun' = [begun EXCEPT ![nextId] = beginInfo]
  /\ nextId' = nextId + 1
  /\ lock' = "free"
  /\ beginInfo' = NoInfo
  /\ UNCHANGED <<phase, diskVars, openVars, persistVars, library,
                 pend, ret, acked, finOk, sent, limitVars, lossVars,
                 moduleVars>>

\* ------------------------------------------------------------ receive_bytes
\* The callers of receive_bytes and finalize are not part of this source.
\* The model lets a call come with any identifier that was handed out and
\* not released, also after a finalize of it: that is the only way the
\* ok_or(UploadError::Cancelled) branches are taken, since nothing but
\* finalize removes an entry.
receive_locked_Upsert(u, id, n) ==
  IF id \in DOMAIN u
  THEN [res |-> "Ok", uploads |-> [u EXCEPT ![id].uploaded_bytes = @ + n]]
  ELSE [res |-> "Ok",
        uploads |-> MapInsert(u, id, [info |-> NoInfo, uploaded_bytes |-> n])]

receive_locked_Assign(u, id, n) ==
  IF id \in DOMAIN u
  THEN [res |-> "Ok", uploads |-> [u EXCEPT ![id].uploaded_bytes = n]]
  ELSE [res |-> "Cancelled", uploads |-> u]

\* receive_bytes once it holds the lock: uploads.get_mut(&self.id)
\* .ok_or(Cancelled)?, then *uploaded_bytes += bytes.len()
receive_locked(u, id, n) ==
  IF id \in DOMAIN u
  THEN [res |-> "Ok", uploads |-> [u EXCEPT ![id].uploaded_bytes = @ + n]]
  ELSE [res |-> "Cancelled", uploads |-> u]

\* self.file.write_all(bytes) returns Ok; the call goes on to wait for the lock
RbWriteOk(id, n) ==
  /\ phase = "open"
  /\ handle[id] = "live"
  /\ pend[id] = 0
  /\ TotalBytes + n <= MaxBytes
  /\ fileLen' = [fileLen EXCEPT ![id] = @ + n]
  /\ pend' = [pend EXCEPT ![id] = n]
  /\ UNCHANGED <<phase, diskVars, openVars, persistVars, lock,
                 mapVars, mediaDir, nextId, beginInfo, handle, ret, begun,
                 acked, finOk, sent, limitVars, lossVars,
                 moduleVars>>

\* self.file.write_all(bytes) fails after k < n bytes; `?` returns the error
RbWriteFails(id, n) ==
  /\ phase = "open"
  /\ handle[id] = "live"
  /\ pend[id] = 0
  /\ TotalBytes + n <= MaxBytes
  /\ \E k \in 0..(n - 1) :
       /\ fileLen' = [fileLen EXCEPT ![id] = @ + k]
       /\ torn' = [torn EXCEPT ![id] = @ + k]
  /\ ret' = [op |-> "receive_bytes", id |-> id, res |-> "Io"]
  /\ UNCHANGED <<phase, diskVars, openVars, persistVars, lock,
                 mapVars, mediaDir, nextId, beginInfo, handle, pend, begun,
                 acked, finOk, lost, sent, limitVars, moduleVars>>

\* the caller drops the receive_bytes future at an await point once the
\* bytes are in the file (write_all not polled again after the write, or the
\* wait at self.base.lock().await): the counter is not touched and nothing
\* is returned (explored in the runs that send no state)
RbAbandon(id) ==
  /\ phase = "open"
  /\ sendLimit = 0
  /\ pend[id] > 0
  /\ lost' = [lost EXCEPT ![id] = @ + pend[id]]
  /\ pend' = [pend EXCEPT ![id] = 0]
  /\ UNCHANGED <<phase, diskVars, openVars, persistVars, lock,
                 mapVars, mediaDir, fileLen, nextId, beginInfo, handle, ret,
                 begun, acked, finOk, torn, sent, limitVars, moduleVars>>

RbCommit_NoLock(id) ==
  /\ phase = "open"
  /\ pend[id] > 0
  /\ LET r == receive_locked(uploads, id, pend[id]) IN
       /\ uploads' = r.uploads
       /\ ret' = [op |-> "receive_bytes", id |-> id, res |-> r.res]
       /\ acked' = [acked EXCEPT ![id] = IF r.res = "Ok" THEN @ + pend[id] ELSE @]
  /\ pend' = [pend EXCEPT ![id] = 0]
  /\ UNCHANGED <<phase, diskVars, openVars, persistVars, lock,
                 library, mediaDir, fileLen, nextId, beginInfo, handle, begun,
                 finOk, sent, limitVars, lossVars,
                 moduleVars>>

\* the rest of receive_bytes, from self.base.lock().await to the return
RbCommit(id) ==
  /\ phase = "open"
  /\ pend[id] > 0
  /\ lock = "free"
  /\ LET r == receive_locked(uploads, id, pend[id]) IN
       /\ uploads' = r.uploads
       /\ ret' = [op |-> "receive_bytes", id |-> id, res |-> r.res]
       /\ acked' = [acked EXCEPT ![id] = IF r.res = "Ok" THEN @ + pend[id] ELSE @]
  /\ pend' = [pend EXCEPT ![id] = 0]
  /\ UNCHANGED <<phase, diskVars, openVars, persistVars, lock,
                 library, mediaDir, fileLen, nextId, beginInfo, handle, begun,
                 finOk, sent, limitVars, lossVars,
                 moduleVars>>

\* ----------------------------------------------------------------- finalize
media_info_Swapped(up) == [name |-> up.info.kind, kind |-> up.info.name]

\* MediaInfo { name: upload.info.name, kind: upload.info.kind }
media_info(up) == [name |-> up.info.name, kind |-> up.info.kind]

finalize_locked_Get(u, lib, id) ==
  IF id \in DOMAIN u
  THEN [res |-> "Ok", uploads |-> u,
        library |-> MapInsert(lib, id, media_info(u[id]))]
  ELSE [res |-> "Cancelled", uploads |-> u, library |-> lib]

finalize_locked_Default(u, lib, id) ==
  IF id \in DOMAIN u
  THEN [res |-> "Ok", uploads |-> MapRemove(u, id),
        library |-> MapInsert(lib, id, media_info(u[id]))]
  ELSE [res |-> "Cancelled", uploads |-> u,
        library |-> MapInsert(lib, id, media_info(new_upload(NoInfo)))]

\* finalize once it holds the lock: uploads.remove(&self.id)
\* .ok_or(Cancelled)?, then library.insert(self.id, MediaInfo {..})
finalize_locked(u, lib, id) ==
  IF id \in DOMAIN u
  THEN [res |-> "Ok", uploads |-> MapRemove(u, id),
        library |-> MapInsert(lib, id, media_info(u[id]))]
  ELSE [res |-> "Cancelled", uploads |-> u, library |-> lib]

\* MediaUpload::finalize, from self.base.lock().await to the return
Finalize(id) ==
  /\ phase = "open"
  /\ handle[id] = "live"
  /\ pend[id] = 0
  /\ lock = "free"
  /\ LET r == finalize_locked(uploads, library, id) IN
       /\ uploads' = r.uploads
       /\ library' = r.library
       /\ ret' = [op |-> "finalize", id |-> id, res |-> r.res]
       /\ finOk' = [finOk EXCEPT ![id] = IF r.res = "Ok" THEN @ + 1 ELSE @]
  /\ UNCHANGED <<phase, diskVars, openVars, persistVars, lock,
                 mediaDir, fileLen, nextId, beginInfo, handle, pend,
                 begun, acked, sent, limitVars, lossVars,
                 moduleVars>>

\* The caller releases the handle of an identifier and makes no further
\* call with it.  MediaUpload has no Drop implementation: the file is
\* closed and nothing else happens.
DropHandle(id) ==
  /\ phase = "open"
  /\ handle[id] = "live"
  /\ pend[id] = 0
  /\ handle' = [handle EXCEPT ![id] = "dropped"]
  /\ UNCHANGED <<phase, diskVars, openVars, persistVars, lock,
                 mapVars, mediaDir, fileLen, nextId, beginInfo, pend, ret,
                 begun, acked, finOk, sent, limitVars, lossVars,
                 moduleVars>>

\* ------------------------------------------------------------ specification
Next ==
  \/ OpenDirFails
  \/ OpenReads
  \/ \E w \in EditedWorkspaces : EngineSend(w)
  \/ PersistRecv
  \/ PersistLock
  \/ WriteTmpPartial
  \/ WriteTmpOk
  \/ WriteFails
  \/ RenameOk
  \/ Crash
  \/ \E info \in Infos : BeginLock(info)
  \/ BeginDirFails
  \/ BeginFileFails
  \/ BeginOk
  \/ \E id \in Ids, n \in ChunkLens : RbWriteOk(id, n)
  \/ \E id \in Ids, n \in ChunkLens : RbWriteFails(id, n)
  \/ \E id \in Ids : RbAbandon(id)
  \/ \E id \in Ids : RbCommit(id)
  \/ \E id \in Ids : Finalize(id)
  \/ \E id \in Ids : DropHandle(id)

Spec == Init /\ [][Next]_vars

\* ---------------------------------------------------------------- gate.rs
GateStates == {"Open", "Closed"}

\* a sample of an output block that run_tick has not written this tick
Unwritten == "unwritten"

\* the blocks the engine hands to run_tick, one per output terminal
FreshOutputs(n) == [o \in 1..n |-> [i \in 1..BlockLen |-> Unwritten]]

Gate_output_count == 1

Gate_update_Keeps(old, new_params) == old

\* Gate::update stores the new parameters
Gate_update(old, new_params) == new_params

\* Gate::run_tick: every sample of outputs[0] becomes 1.0 or 0.0
Gate_run_tick(params, outputs) ==
  LET len == Len(outputs[1])
      value == IF params = "Open" THEN "1.0" ELSE "0.0"
  IN  [outputs EXCEPT ![1] = [i \in 1..len |-> value]]

GateCreate(params) ==
  /\ gateParams = "none"
  /\ gateParams' = params
  /\ gateAsked' = params
  /\ UNCHANGED <<gateOut, gateTicks, vstState, vst, vstCalls, vstInfo,
                 vstLoads, vstOut, vstTicks, projectVars>>

GateUpdate(new_params) ==
  /\ gateParams # "none"
  /\ gateParams' = Gate_update(gateParams, new_params)
  /\ gateAsked' = new_params
  /\ UNCHANGED <<gateOut, gateTicks, vstState, vst, vstCalls, vstInfo,
                 vstLoads, vstOut, vstTicks, projectVars>>

GateRunTick ==
  /\ gateParams # "none"
  /\ gateTicks < MaxTicks
  /\ gateOut' = Gate_run_tick(gateParams, FreshOutputs(Gate_output_count))
  /\ gateTicks' = gateTicks + 1
  /\ UNCHANGED <<gateParams, gateAsked, vstState, vst, vstCalls, vstInfo,
                 vstLoads, vstOut, vstTicks, projectVars>>

\* ----------------------------------------------------------------- vst.rs
SAMPLE_RATE == 44100
BLOCK_SIZE == SAMPLE_RATE \div 100

\* what a plugin can report from get_info
PluginInfos == [inputs : 0..MaxArity, outputs : 0..MaxArity]

\* LineType::Mono.unlabeled()
MonoUnlabeled == [line |-> "Mono", label |-> "none"]

Call(k, op, arg) == [plugin |-> k, op |-> op, arg |-> arg]

plugin_setup_ResumeFirst(k) ==
  << Call(k, "resume", 0),
     Call(k, "init", 0),
     Call(k, "set_sample_rate", SAMPLE_RATE),
     Call(k, "set_block_size", BLOCK_SIZE),
     Call(k, "get_info", 0) >>

\* the calls load_vst makes on the plugin it opened
plugin_setup(k) ==
  << Call(k, "init", 0),
     Call(k, "set_sample_rate", SAMPLE_RATE),
     Call(k, "set_block_size", BLOCK_SIZE),
     Call(k, "get_info", 0),
     Call(k, "resume", 0) >>

load_vst_InputsTwice(k, info) ==
  [ plugin  |-> k,
    inputs  |-> [i \in 1..info.inputs |-> MonoUnlabeled],
    outputs |-> [i \in 1..info.inputs |-> MonoUnlabeled] ]

\* the instance load_vst returns for plugin k reporting info
load_vst(k, info) ==
  [ plugin  |-> k,
    inputs  |-> [i \in 1..info.inputs |-> MonoUnlabeled],
    outputs |-> [i \in 1..info.outputs |-> MonoUnlabeled] ]

\* Vst::run_tick returns None and touches neither the plugin nor outputs
Vst_run_tick(outputs) == outputs

\* load_vst ran to its end: a plugin was loaded, set up and wrapped
Loaded(info) ==
  /\ vstLoads < MaxLoads
  /\ vstLoads' = vstLoads + 1
  /\ vstCalls' = vstCalls \o plugin_setup(vstLoads + 1)
  /\ vstInfo' = info
  /\ vst' = load_vst(vstLoads + 1, info)
  /\ vstState' = "ready"

VstCreate(info) ==
  /\ vstState = "none"
  /\ Loaded(info)
  /\ UNCHANGED <<gateParams, gateAsked, gateOut, gateTicks, vstOut,
                 vstTicks, projectVars>>

\* the assert or one of the unwraps of load_vst panics inside create
VstCreatePanics ==
  /\ vstState = "none"
  /\ vstState' = "panicked"
  /\ UNCHANGED <<gateParams, gateAsked, gateOut, gateTicks, vst, vstCalls,
                 vstInfo, vstLoads, vstOut, vstTicks, projectVars>>

VstUpdate(info) ==
  /\ vstState = "ready"
  /\ Loaded(info)
  /\ UNCHANGED <<gateParams, gateAsked, gateOut, gateTicks, vstOut,
                 vstTicks, projectVars>>

\* the assert or one of the unwraps of load_vst panics inside update
VstUpdatePanics ==
  /\ vstState = "ready"
  /\ vstState' = "panicked"
  /\ UNCHANGED <<gateParams, gateAsked, gateOut, gateTicks, vst, vstCalls,
                 vstInfo, vstLoads, vstOut, vstTicks, projectVars>>

VstRunTick ==
  /\ vstState = "ready"
  /\ vstTicks < MaxTicks
  /\ vstOut' = Vst_run_tick(FreshOutputs(Len(vst.outputs)))
  /\ vstTicks' = vstTicks + 1
  /\ UNCHANGED <<gateParams, gateAsked, gateOut, gateTicks, vstState, vst,
                 vstCalls, vstInfo, vstLoads, projectVars>>

\* the modules alone, beside a project that is never opened
InitModules ==
  /\ Init
  /\ dir = "absent"
  /\ sendLimit = MaxSends

NextModules ==
  \/ \E params \in GateStates : GateCreate(params)
  \/ \E new_params \in GateStates : GateUpdate(new_params)
  \/ GateRunTick
  \/ \E info \in PluginInfos : VstCreate(info)
  \/ VstCreatePanics
  \/ \E info \in PluginInfos : VstUpdate(info)
  \/ VstUpdatePanics
  \/ VstRunTick

SpecModules == InitModules /\ [][NextModules]_vars

\* ------------------------------------------------------------------ steps
\* a finalize call on id returns in this step
FinalizeReturns(id) ==
  /\ ret'.op = "finalize"
  /\ ret'.id = id
  /\ (ret' # ret \/ finOk' # finOk)

\* a receive_bytes call on id leaves its critical section in this step
ReceiveCommits(id) ==
  /\ pend[id] > 0
  /\ pend'[id] = 0
  /\ lost'[id] = lost[id]
  /\ phase' = "open"

\* a write_workspace call returns an error in this step
WriteErrs ==
  /\ Len(log') = Len(log) + 1
  /\ log'[Len(log')].res = "err"

\* open_or_create returns in this step
OpenReturns == phase = "closed" /\ phase' # "closed"

Canonical == fs[workspace_path]
Temporary == fs[workspace_tmp_path]
IsDocument(f) == f.exists /\ Parse(f.data) # "ParseError"

\* ------------------------------------------------------------------ claims

\* C1: finalize succeeds at most once per identifier.  No identifier ever
\* has more than one finalize that returned Ok; a finalize on an identifier
\* that is in progress returns Ok, and a finalize on an identifier that
\* already had a successful finalize returns Cancelled.
C1_FinalizeAtMostOnce ==
  /\ [](\A id \in Ids : finOk[id] <= 1)
  /\ [][\A id \in Ids : FinalizeReturns(id) =>
          /\ (id \in DOMAIN uploads => ret'.res = "Ok")
          /\ (finOk[id] >= 1 => ret'.res = "Cancelled")]_vars

\* a second finalize on a published identifier has returned Cancelled
C1_Witness ==
  \E id \in Ids :
    /\ finOk[id] = 1
    /\ ret = [op |-> "finalize", id |-> id, res |-> "Cancelled"]

\* C2: a receive_bytes call whose identifier is not in the in-progress map
\* when it takes the lock returns Cancelled and changes neither the library
\* nor the in-progress map.
C2_ReceiveAfterEndCancelled ==
  [][\A id \in Ids : (ReceiveCommits(id) /\ id \notin DOMAIN uploads) =>
       /\ ret' = [op |-> "receive_bytes", id |-> id, res |-> "Cancelled"]
       /\ library' = library
       /\ uploads' = uploads]_vars

\* a receive_bytes on a published identifier has returned Cancelled
C2_Witness ==
  \E id \in DOMAIN library :
    /\ id \notin DOMAIN uploads
    /\ ret = [op |-> "receive_bytes", id |-> id, res |-> "Cancelled"]

\* C3: the uploaded_bytes counter of every in-progress upload equals the
\* total length of the receive_bytes calls on it that returned Ok; it starts
\* at 0, never decreases, and changes only in a receive_bytes step of the
\* same upload, by the length of that call.
C3_UploadedBytesExact ==
  /\ [](\A id \in DOMAIN uploads : uploads[id].uploaded_bytes = acked[id])
  /\ [][\A id \in DOMAIN uploads' :
          IF id \in DOMAIN uploads
          THEN /\ uploads'[id].uploaded_bytes >= uploads[id].uploaded_bytes
               /\ uploads'[id].uploaded_bytes # uploads[id].uploaded_bytes =>
                    /\ ReceiveCommits(id)
                    /\ uploads'[id].uploaded_bytes
                         = uploads[id].uploaded_bytes + pend[id]
          ELSE uploads'[id].uploaded_bytes = 0]_vars

\* an upload has counted MaxBytes bytes while the persistence task has
\* finished a write
C3_Witness ==
  \E id \in DOMAIN uploads :
    /\ uploads[id].uploaded_bytes = MaxBytes
    /\ acked[id] = MaxBytes
    /\ log # <<>>

\* C4: a finalize that returns Ok runs with the lock free before and after
\* (nobody else is inside a critical section), and in that one step the
\* identifier leaves the in-progress map and enters the library with the
\* name and kind its begin_media_upload was given.
C4_FinalizePublishes ==
  [][\A id \in Ids : (FinalizeReturns(id) /\ ret'.res = "Ok") =>
       /\ lock = "free" /\ lock' = "free"
       /\ id \in DOMAIN uploads
       /\ id \notin DOMAIN uploads'
       /\ id \notin DOMAIN library
       /\ id \in DOMAIN library'
       /\ library'[id] = [name |-> begun[id].name, kind |-> begun[id].kind]]_vars

\* an identifier begun as a video named b.mp4 is published
C4_Witness ==
  \E id \in DOMAIN library :
    /\ id \notin DOMAIN uploads
    /\ begun[id].name = "b.mp4"
    /\ library[id] = [name |-> "b.mp4", kind |-> "video"]

\* C5: every library entry belongs to an identifier whose finalize returned
\* Ok, and no step of the running program removes a library entry or
\* changes its name or kind.
C5_LibraryEntriesPermanent ==
  /\ [](\A id \in DOMAIN library : finOk[id] >= 1)
  /\ [][phase' = "open" =>
          \A id \in DOMAIN library :
            id \in DOMAIN library' /\ library'[id] = library[id]]_vars

\* an identifier is published, calls on it came later, and another upload
\* was begun
C5_Witness ==
  \E id \in DOMAIN library :
    /\ ret.id = id
    /\ ret.res = "Cancelled"
    /\ nextId > 2
    /\ \E other \in DOMAIN uploads : other # id

\* C6: an upload whose handle is released without a successful finalize has
\* its entry removed from the in-progress map (and has no library entry).
C6_CancelledUploadRemoved ==
  \A id \in Ids :
    (handle[id] = "dropped" /\ finOk[id] = 0) =>
      (id \notin DOMAIN uploads /\ id \notin DOMAIN library)

\* C7: while the project is open and after a crash, the canonical workspace
\* file is absent or holds a whole document; the only step that changes it
\* is the rename that ends a write_workspace returning Ok, which puts the
\* document of the state being written there.
C7_CanonicalAlwaysWhole ==
  /\ [](phase \in {"open", "crashed"} => (~Canonical.exists \/ IsDocument(Canonical)))
  /\ [][fs'[workspace_path] # fs[workspace_path] =>
          /\ pcP = "written"
          /\ lock = "persist"
          /\ fs'[workspace_path] = FileOf(Serialize(cur))
          /\ log' = Append(log, [ws |-> cur, res |-> "ok"])]_vars

\* the process died while the temporary file held part of a document, and
\* the canonical file holds the document committed before
C7_Witness ==
  /\ phase = "crashed"
  /\ Temporary.exists
  /\ ~IsDocument(Temporary)
  /\ Canonical = FileOf(Serialize("wsB"))

C9_WriteErrorSwallowed ==
  /\ [][WriteErrs =>
          /\ pcP' = "recv"
          /\ lock' = "free"
          /\ phase' = "open"
          /\ channel' = channel
          /\ UNCHANGED <<library, uploads, engineWs, openResult>>
          /\ fs'[workspace_path] = fs[workspace_path]]_vars
  /\ [](phase = "open" =>
          /\ pcP \in {"recv", "lock", "write", "writing", "written"}
          /\ (pcP = "recv" /\ channel # <<>>) => ENABLED PersistRecv)

\* a write failed and a later write committed its state
C9_Witness ==
  \E i \in 1..Len(log) : \E j \in (i + 1)..Len(log) :
    /\ log[i].res = "err"
    /\ log[j].res = "ok"
    /\ Canonical = FileOf(Serialize(log[j].ws))

\* C10: when read_workspace finds no workspace file, open_or_create returns
\* Ok with the engine started on the default workspace; when the read fails
\* otherwise or the content does not parse, it returns an error, and then
\* the engine is never started and the persistence task never spawned.
C10_OpenReadOutcome ==
  /\ [][OpenReturns =>
          /\ readOutcome' = "NotFound" =>
               /\ ~Canonical.exists
               /\ openResult' = "Ok"
               /\ phase' = "open"
               /\ engineWs' = DefaultWorkspace
               /\ pcP' = "recv"
          /\ readOutcome' \in {"IoErr", "ParseErr"} =>
               /\ openResult' = "Io"
               /\ phase' = "failed"]_vars
  /\ [](phase = "failed" =>
          /\ openResult \in {"Io", "NotDirectory"}
          /\ engineWs = "none"
          /\ pcP = "none"
          /\ sent = <<>>)

\* the workspace file did not parse and the open failed
C10_Witness ==
  /\ phase = "failed"
  /\ readOutcome = "ParseErr"
  /\ openResult = "Io"
  /\ pcP = "none"

\* C11: a step of the running program that changes the in-progress map or
\* the library is taken by the holder of the lock: either a critical
\* section that takes and releases the free lock in one step, or the
\* begin_media_upload that holds it; never while another task holds it.  A
\* step that appends to a media file neither takes nor releases the lock
\* and touches no map, and the append of a receive_bytes waits for nothing:
\* it can be taken whoever holds the lock and whatever the other uploads
\* are doing.
C11_MapsUnderLockWritesOutside ==
  /\ [][(mapVars' # mapVars /\ phase' = "open") =>
          \/ lock = "free" /\ lock' = "free"
          \/ lock = "begin" /\ lock' = "free"]_vars
  /\ [][fileLen' # fileLen => UNCHANGED <<lock, library, uploads>>]_vars
  /\ [](\A id \in Ids :
          ( /\ phase = "open" /\ handle[id] = "live" /\ pend[id] = 0
            /\ TotalBytes < MaxBytes ) => ENABLED RbWriteOk(id, 1))

\* two uploads have both appended to their files and neither has taken the
\* lock yet
C11_Witness ==
  \E i \in Ids : \E j \in Ids :
    /\ i # j
    /\ pend[i] > 0 /\ pend[j] > 0
    /\ fileLen[i] > 0 /\ fileLen[j] > 0
    /\ uploads[i].uploaded_bytes = 0 /\ uploads[j].uploaded_bytes = 0


\* ------------------------------------------------------------ module claims
AllWritten(outputs) ==
  \A o \in DOMAIN outputs :
    /\ Len(outputs[o]) = BlockLen
    /\ \A i \in DOMAIN outputs[o] : outputs[o][i] # Unwritten

\* C12: once a module has run a tick, every one of its output terminals has
\* its whole block written by that run_tick, for the Gate and for the Vst.
C12_EveryOutputWritten ==
  /\ gateTicks > 0 => Len(gateOut) = Gate_output_count /\ AllWritten(gateOut)
  /\ vstTicks > 0 => AllWritten(vstOut)


\* C13: every run_tick of the Gate writes, to every sample of its single
\* output block, 1.0 when the parameters most recently supplied by create or
\* update are Open and 0.0 when they are Closed.
C13_GateOutputFollowsParams ==
  /\ [](gateParams = gateAsked)
  /\ [][gateTicks' # gateTicks =>
          /\ Len(gateOut') = 1
          /\ Len(gateOut'[1]) = BlockLen
          /\ \A i \in 1..BlockLen :
               gateOut'[1][i] = IF gateAsked = "Open" THEN "1.0" ELSE "0.0"]_vars

\* a tick ran while Open, and an update to Closed followed it
C13_Witness ==
  /\ gateTicks > 0
  /\ \A i \in 1..BlockLen : gateOut[1][i] = "1.0"
  /\ gateAsked = "Closed"


\* the calls one plugin sees while it is loaded, as the contract orders them
SetupOrder == <<"init", "set_sample_rate", "set_block_size", "get_info",
                "resume">>

\* C14: calls reach a plugin only inside create and update; each loaded
\* plugin sees exactly init, set sample rate, set block size (the sample
\* rate divided by 100), query info, resume, in that order; all of it is
\* done before a run_tick of the instance can happen; and run_tick neither
\* loads a plugin nor calls one.
C14_SetupOnlyInCreateAndUpdate ==
  /\ [](/\ Len(vstCalls) = Len(SetupOrder) * vstLoads
        /\ \A k \in 1..vstLoads : \A j \in 1..Len(SetupOrder) :
             LET c == vstCalls[Len(SetupOrder) * (k - 1) + j]
             IN  /\ c.plugin = k
                 /\ c.op = SetupOrder[j]
                 /\ c.op = "set_sample_rate" => c.arg = SAMPLE_RATE
                 /\ c.op = "set_block_size" => c.arg * 100 <= SAMPLE_RATE
                                             /\ SAMPLE_RATE < (c.arg + 1) * 100)
  /\ []((ENABLED VstRunTick \/ vstTicks > 0) =>
          vstLoads > 0 /\ vst.plugin > 0)
  /\ [][(vstCalls' # vstCalls \/ vst' # vst) =>
          /\ vstLoads' = vstLoads + 1
          /\ vst'.plugin = vstLoads'
          /\ vstState \in {"none", "ready"}
          /\ UNCHANGED <<vstTicks, vstOut>>]_vars
  /\ [][vstTicks' # vstTicks => UNCHANGED <<vstCalls, vstLoads, vst>>]_vars

\* the instance was replaced by an update and ticked afterwards
C14_Witness ==
  /\ vstLoads = 2
  /\ vst.plugin = 2
  /\ vstTicks > 0
  /\ Len(vstCalls) = 10


UnlabeledMonos(n) == [i \in 1..n |-> [line |-> "Mono", label |-> "none"]]

\* C15: after every create and every update of a Vst, the instance has as
\* many input terminals as the plugin loaded in that call reported inputs
\* and as many output terminals as it reported outputs, each an unlabeled
\* mono line; update replaces the plugin and both terminal lists.
C15_TerminalsMatchPlugin ==
  /\ [](vstLoads > 0 =>
          /\ vst.plugin = vstLoads
          /\ vst.inputs = UnlabeledMonos(vstInfo.inputs)
          /\ vst.outputs = UnlabeledMonos(vstInfo.outputs))
  /\ [][vstLoads' # vstLoads =>
          \E info \in PluginInfos :
            /\ vstInfo' = info
            /\ vstCalls'[Len(vstCalls') - 1] = Call(vstLoads', "get_info", 0)
            /\ vst' = [ plugin  |-> vstLoads',
                        inputs  |-> UnlabeledMonos(info.inputs),
                        outputs |-> UnlabeledMonos(info.outputs) ]]_vars

\* an update loaded a plugin with no input and two outputs
C15_Witness ==
  /\ vstLoads = 2
  /\ vstState = "ready"
  /\ Len(vst.inputs) = 0
  /\ Len(vst.outputs) = 2


\* ----------------------------------------------------- upload claims, cont.
\* begin_media_upload returns: the guard taken by BeginLock is released
BeginReturns == lock = "begin" /\ lock' = "free" /\ phase' = "open"

\* C16: a begin_media_upload that succeeds adds exactly one entry to the
\* in-progress map, under an identifier that was in neither map, with the
\* supplied info and uploaded_bytes 0, and changes nothing else in the maps;
\* it can succeed when the media directory exists already; one that fails,
\* at the directory or at the file, leaves both maps as they were.
C16_BeginRegistersOneFreshEntry ==
  /\ [][(BeginReturns /\ nextId' # nextId) =>
          /\ nextId \notin DOMAIN uploads
          /\ nextId \notin DOMAIN library
          /\ DOMAIN uploads' = DOMAIN uploads \cup {nextId}
          /\ uploads'[nextId] = [info |-> beginInfo, uploaded_bytes |-> 0]
          /\ \A j \in DOMAIN uploads : uploads'[j] = uploads[j]
          /\ library' = library
          /\ handle'[nextId] = "live"]_vars
  /\ [][(BeginReturns /\ nextId' = nextId) =>
          UNCHANGED <<library, uploads, handle>>]_vars
  /\ []((phase = "open" /\ lock = "begin" /\ mediaDir) => ENABLED BeginOk)

\* a second upload began when the media directory existed already
C16_Witness ==
  /\ mediaDir
  /\ nextId = 3
  /\ 2 \in DOMAIN uploads
  /\ uploads[2] = [info |-> begun[2], uploaded_bytes |-> 0]
  /\ begun[2] \in Infos


\* C17: no identifier is in the in-progress map and in the library at once,
\* and an identifier that enters the in-progress map was never in it
\* before: it is new, has no handle yet, and was never finalized.
C17_MapsDisjointNoReturn ==
  /\ [](DOMAIN uploads \cap DOMAIN library = {})
  /\ [][\A id \in Ids :
          (id \notin DOMAIN uploads /\ id \in DOMAIN uploads') =>
            /\ begun[id] = NoInfo
            /\ handle[id] = "none"
            /\ finOk[id] = 0
            /\ id \notin DOMAIN library]_vars
  /\ [][\A id \in Ids :
          (id \in DOMAIN uploads /\ id \notin DOMAIN uploads'
             /\ phase' = "open") =>
            id \in DOMAIN library' /\ begun'[id] # NoInfo]_vars

\* one upload was finalized while another is still in progress
C17_Witness ==
  \E i \in Ids : \E j \in Ids :
    /\ i \in DOMAIN library /\ i \notin DOMAIN uploads /\ finOk[i] = 1
    /\ j \in DOMAIN uploads /\ j \notin DOMAIN library
    /\ handle[i] \in {"live", "dropped"}


\* C18: the uploaded_bytes counter of an upload never exceeds the number of
\* bytes appended to its file, and the two are equal whenever no
\* receive_bytes call on that upload is in flight and no file write on it
\* has failed part-way.
C18_CounterMatchesFile ==
  \A id \in DOMAIN uploads :
    /\ uploads[id].uploaded_bytes <= fileLen[id]
    /\ (pend[id] = 0 /\ torn[id] = 0) =>
         uploads[id].uploaded_bytes = fileLen[id]


\* C19: a write_workspace call is in progress exactly while the persistence
\* task holds the lock, so there is never more than one and the temporary
\* path changes only under that lock; from before the temporary write until
\* after the rename no begin_media_upload, receive_bytes counter update or
\* finalize changes the maps; the lock is only ever taken when free, and
\* whoever holds it can always go on to release it.
C19_PersistWritesUnderLock ==
  /\ [](phase = "open" =>
          (pcP \in {"write", "writing", "written"} <=> lock = "persist"))
  /\ [][fs'[workspace_tmp_path] # fs[workspace_tmp_path] =>
          lock = "persist" /\ pcP \in {"write", "writing", "written"}]_vars
  /\ [][(lock = "persist" /\ phase' = "open") =>
          /\ UNCHANGED <<library, uploads, nextId>>
          /\ lock' \in {"persist", "free"}]_vars
  /\ [][lock' # lock => (lock = "free" \/ lock' = "free")]_vars
  /\ [](phase = "open" =>
          /\ lock = "persist" => ENABLED (WriteFails \/ RenameOk \/ WriteTmpOk
                                            \/ WriteTmpPartial)
          /\ lock = "begin" => ENABLED BeginOk)

\* the persistence task is inside its temporary write while a receive_bytes
\* call that has written its bytes waits for the lock
C19_Witness ==
  /\ phase = "open"
  /\ lock = "persist"
  /\ pcP = "writing"
  /\ \E id \in DOMAIN uploads : pend[id] > 0 /\ ~ENABLED RbCommit(id)

====
